---- MODULE Spec2Model ----
(***************************************************************************)
(* A model of the multi-backend RAG service: the store registry and the    *)
(* JSON-RPC handlers of backend/app.py, the ingestion pipeline of          *)
(* backend/document_processor.py and the handlers of backend/rpc_server.py.*)
(***************************************************************************)
EXTENDS Integers, Sequences, FiniteSets, TLC

\* ------------------------------------------------------------------ bounds

\* Most documents one similarity search returns.
MaxDocs == 2

\* Elapsed query times range over 0..MaxTime clock ticks.
MaxTime == 1

\* Most chunks one uploaded document splits into.
NChunks == 2

\* Most backends that return documents to one compare-all query.
MaxAnswering == 2

\* Elapsed times of the searches that return nothing range over 0..MaxEmptyTime.
MaxEmptyTime == 0

\* ------------------------------------------------------------ identifiers

\* The backends, in the order app.py's db_map and rpc_server.py's list hold them.
DbOrder == <<"faiss", "chroma", "weaviate", "mongo", "pgvector", "milvus">>

DBS == {DbOrder[i] : i \in 1..Len(DbOrder)}

\* The adapters of backend/vectorstores whose constructor and similarity_search
\* have no catch-all handler: an error inside them reaches the caller.
LocalDbs == {"faiss", "chroma"}

NoDb == "None"

\* ------------------------------------------------------- answer synthesis

NoRelevant == "No relevant information found."

SynthError == "I encountered an error while generating a response."

NoResults == "No results found."

ModelText == "response.text"

\* What similarity_search returns: n dictionaries, each a copy the backend owns,
\* identified here by the backend and the rank.
Docs(db, n) == [j \in 1..n |-> <<db, j>>]

\* The context block of generate_rag_response: "Document i:\n<content>" per
\* retrieved document, in the order of the list.
Context(docs) == [j \in 1..Len(docs) |-> <<j, docs[j]>>]

\* A synthesizer called once per retrieved document.
generate_rag_response_per_doc(docs, gen) ==
    IF Len(docs) = 0
    THEN [text |-> NoRelevant, calls |-> <<>>]
    ELSE [text  |-> IF gen = "ok" THEN ModelText ELSE SynthError,
          calls |-> [j \in 1..Len(docs) |-> Context(<<docs[j]>>)]]

\* generate_rag_response(query, retrieved_docs); gen is what generate_content
\* does when called ("ok" or "raise"). `calls` is the list of prompts' contexts
\* handed to chat_model.generate_content.
generate_rag_response(docs, gen) ==
    IF Len(docs) = 0
    THEN [text |-> NoRelevant, calls |-> <<>>]
    ELSE [text  |-> IF gen = "ok" THEN ModelText ELSE SynthError,
          calls |-> <<Context(docs)>>]

\* ---------------------------------------------------------------- adapters

\* Constructing the adapter of db at module load, when its connection or
\* schema setup succeeds (ok) or fails: FAISSVectorStore and ChromaVectorStore
\* raise; the networked adapters swallow the error and stay as an object
\* without a client ("dummy").
Construct(db, ok) ==
    IF ok THEN "ready"
    ELSE IF db \in LocalDbs THEN "raise" ELSE "dummy"

\* app.py's try/except around each constructor: the module variable is None
\* when the constructor raised.
AppStore(db, ok) ==
    IF Construct(db, ok) = "raise" THEN "none" ELSE Construct(db, ok)

\* app.py's available_dbs dictionary: "<store> is not None".
InitialAvailable(st) == [db \in DBS |-> st[db] # "none"]

\* What one similarity_search call on adapter db in state s can do: raise, or
\* return n documents after t ticks.
SearchOutcomes(db, s) ==
    LET found == {[kind |-> "docs", n |-> n, t |-> t] : n \in 1..MaxDocs, t \in 0..MaxTime}
        empty == {[kind |-> "docs", n |-> 0, t |-> t] : t \in 0..MaxEmptyTime}
        throw == {[kind |-> "raise", n |-> 0, t |-> 0]}
    IN  IF s = "dummy" THEN empty
        ELSE IF db \in LocalDbs THEN found \cup empty \cup throw
        ELSE found \cup empty

\* -------------------------------------------------------------- ingestion

\* Chunk writes that can return False (add_document catches the driver error).
AddFails == {"weaviate", "mongo", "pgvector", "milvus"}

\* Chunk writes that can raise out of add_document.
AddRaises == {"faiss", "chroma", "mongo", "pgvector"}

\* What indexing n chunks into db can do inside process_document: the block is
\* skipped (missing credentials, ImportError, adapter without a client), the
\* constructor raises, or the chunks are written one by one; raiseAt is the
\* chunk whose write raises (0: none), fails the chunks whose write returns False.
IndexOutcomes(db, n) ==
    {[gate |-> "skip", raiseAt |-> 0, fails |-> {}]}
    \cup (IF db \in LocalDbs
          THEN {[gate |-> "ctor_raise", raiseAt |-> 0, fails |-> {}]} ELSE {})
    \cup {[gate |-> "run", raiseAt |-> r, fails |-> f] :
            r \in (IF db \in AddRaises THEN 0..n ELSE {0}),
            f \in (IF db \in AddFails THEN SUBSET (1..n) ELSE {{}})}

\* Only the writes made before the raising one count.
Canonical(o, n) ==
    o.gate = "run" /\ o.raiseAt > 0 => o.fails \subseteq 1..(o.raiseAt - 1)

\* time.time() - start_time after `calls` add_document calls: one tick a call.
Elapsed(calls) == calls

\* The same block with the timing written inside the loop, after each chunk:
\* a block that raises part-way leaves a timing behind.
IndexBackend_timed_in_loop(db, o, n) ==
    IF o.gate = "skip"
    THEN [visited |-> TRUE, raised |-> FALSE, time |-> -1, available |-> FALSE,
          written |-> 0, attempts |-> 0]
    ELSE IF o.gate = "ctor_raise"
    THEN [visited |-> TRUE, raised |-> TRUE, time |-> -1, available |-> FALSE,
          written |-> 0, attempts |-> 0]
    ELSE IF o.raiseAt > 0
    THEN [visited |-> TRUE, raised |-> TRUE, time |-> Elapsed(o.raiseAt - 1), available |-> FALSE,
          written |-> (o.raiseAt - 1) - Cardinality(o.fails),
          attempts |-> o.raiseAt]
    ELSE [visited |-> TRUE, raised |-> FALSE, time |-> Elapsed(n), available |-> TRUE,
          written |-> n - Cardinality(o.fails), attempts |-> n]

\* One backend's block of process_document: the entry of indexing_times, the
\* entry of available_dbs, the records written, the writes attempted, whether
\* the block's handler caught an error.
IndexBackend(db, o, n) ==
    IF o.gate = "skip"
    THEN [visited |-> TRUE, raised |-> FALSE, time |-> -1, available |-> FALSE,
          written |-> 0, attempts |-> 0]
    ELSE IF o.gate = "ctor_raise"
    THEN [visited |-> TRUE, raised |-> TRUE, time |-> -1, available |-> FALSE,
          written |-> 0, attempts |-> 0]
    ELSE IF o.raiseAt > 0
    THEN [visited |-> TRUE, raised |-> TRUE, time |-> -1, available |-> FALSE,
          written |-> (o.raiseAt - 1) - Cardinality(o.fails),
          attempts |-> o.raiseAt]
    ELSE [visited |-> TRUE, raised |-> FALSE, time |-> Elapsed(n), available |-> TRUE,
          written |-> n - Cardinality(o.fails), attempts |-> n]

\* A return of {"success": False, "message": ...}: no metrics.
NoReport ==
    [success |-> FALSE,
     indexing_times |-> [db \in DBS |-> -1],
     available_dbs |-> [db \in DBS |-> FALSE]]

\* The dictionary process_document returns, from the per-backend blocks b.
Report(b) ==
    IF \A db \in DBS : ~b[db].available
    THEN NoReport
    ELSE [success |-> TRUE,
          indexing_times |-> [db \in DBS |-> b[db].time],
          available_dbs |-> [db \in DBS |-> b[db].available]]

\* process_document(file_path, get_embedding_fn) as one call: n chunks (0: the
\* text extraction or the split gave nothing), outs the per-backend outcomes.
process_document(n, outs) ==
    IF n = 0 THEN NoReport
    ELSE Report([db \in DBS |-> IndexBackend(db, outs[db], n)])

\* ------------------------------------------------------------------ state

VARIABLES
    server,               \* which program runs: "app" (app.py) or "rpc" (rpc_server.py)
    store,                \* the module-level adapter variables: "none", "dummy", "ready"
    available_dbs,        \* app.py's global available_dbs dictionary
    op,                   \* the handler called last, with its arguments
    resp,                 \* what that handler returned
    sim_calls,            \* the backends whose similarity_search it invoked, in order
    synth_calls,          \* the contexts it handed to generate_content, in order
    pc,                   \* position inside a compare-all rag_query
    i,                    \* the index in DbOrder of the backend the loop is at
    all_results,          \* rag_query's all_results dictionary
    min_time,             \* rag_query's min_time
    best_db,              \* rag_query's best_db
    max_results,          \* rag_query's max_results
    best_retrieved_docs,  \* rag_query's best_retrieved_docs
    ipc,                  \* position inside an ingestion
    chunks,               \* len(document_chunks)
    bi,                   \* the index in DbOrder of the backend block the ingestion is at
    blocks,               \* per backend: what its block of the ingestion did
    result,               \* what the ingestion returned
    contents,             \* the content of each chunk of the document being ingested
    embedding_cache,      \* process_document's embedding_cache dictionary
    embed_calls,          \* the texts handed to get_embedding_fn, in order
    received,             \* per backend: the embeddings handed to its add_document, in order
    adapter,              \* the adapter object under test: its package, backend and search path
    documents,            \* the documents that adapter holds, in insertion order
    vectors,              \* the embeddings its index or collection holds, in insertion order
    call,                 \* the adapter method called last, with its arguments
    ret,                  \* what that call returned, or that it raised
    schema,               \* the embedding length of the collection or table a rag wrapper's backend has (0: none)
    log,                  \* the records the adapter's constructor printed, in order
    disk,                 \* ./storage/faiss: the files index.faiss and documents.pkl
    faiss_store,          \* app.py's module-level FAISSVectorStore instance
    uploads,              \* per upload_document call: the FAISSVectorStore its process_document made
    searched,             \* what a rag_query on faiss searched last
    spc,                  \* position inside split_text_into_chunks
    split_text,           \* split_text_into_chunks: its argument text
    start,                \* split_text_into_chunks: its start
    split_chunks,         \* split_text_into_chunks: its chunks list
    mpc,                  \* position inside MongoDBVectorStore.add_document
    attempt,              \* add_document's loop variable
    mongo_doc,            \* the _id of the mongo_doc being inserted (0: none)
    collection,           \* self.collection: whether it is None, and the _id of each document it holds
    insert_calls,         \* how each insert_one call of the current add_document ended, in order
    mret                  \* what the last add_document returned, or that it raised

registry == <<server, store, available_dbs>>

observed == <<op, resp, sim_calls, synth_calls>>

rq == <<i, all_results, min_time, best_db, max_results, best_retrieved_docs>>

locals == <<pc, rq>>

\* The state of a query or registry call, and the state of an ingestion.
serving == <<observed, locals>>

\* The embeddings of one process_document call.
embeds == <<contents, embedding_cache, embed_calls, received>>

ingest == <<ipc, chunks, bi, blocks, result, embeds>>

\* One adapter object, exercised on its own.
\* The FAISS files and the objects of one process that hold their content.
files == <<disk, faiss_store, uploads, searched>>

\* One call of split_text_into_chunks.
split == <<spc, split_text, start, split_chunks>>

\* One MongoDBVectorStore and its add_document calls.
retry == <<mpc, attempt, mongo_doc, collection, insert_calls, mret>>

\* The parts of the program that are examined apart from a request.
aside == <<files, split, retry>>

unit == <<adapter, documents, vectors, call, ret, schema, log, aside>>

vars == <<registry, observed, locals, ingest, unit>>

\* float('inf'): above every elapsed time.
Inf == MaxTime + 1

NoEntry ==
    [present |-> FALSE, success |-> FALSE, error |-> "", query_time |-> 0,
     retrieved_docs |-> <<>>]

Failure(msg) ==
    [present |-> TRUE, success |-> FALSE, error |-> msg, query_time |-> 0,
     retrieved_docs |-> <<>>]

Found(t, docs) ==
    [present |-> TRUE, success |-> TRUE, error |-> "", query_time |-> t,
     retrieved_docs |-> docs]

NoOp == [name |-> "none", db_type |-> NoDb, compare_all |-> FALSE]

NoResp ==
    [kind |-> "none", code |-> 0, response |-> "", best_db |-> NoDb, list |-> {}]

Success(text, best, list) ==
    [kind |-> "Success", code |-> 0, response |-> text, best_db |-> best, list |-> list]

Error(code, msg) ==
    [kind |-> "Error", code |-> code, response |-> msg, best_db |-> NoDb, list |-> {}]

IdleLocals ==
    /\ pc = "idle"
    /\ i = 0
    /\ all_results = [db \in DBS |-> NoEntry]
    /\ min_time = Inf
    /\ best_db = NoDb
    /\ max_results = 0
    /\ best_retrieved_docs = <<>>

NoBlock ==
    [visited |-> FALSE, raised |-> FALSE, time |-> -1, available |-> FALSE,
     written |-> 0, attempts |-> 0]

\* embedding_cache = {}: no text has an embedding yet.
NoCache == [t \in 1..NChunks |-> <<>>]

IdleEmbeds ==
    /\ contents = <<>>
    /\ embedding_cache = NoCache
    /\ embed_calls = <<>>
    /\ received = [db \in DBS |-> <<>>]

IdleIngest ==
    /\ ipc = "idle"
    /\ chunks = 0
    /\ bi = 0
    /\ blocks = [db \in DBS |-> NoBlock]
    /\ result = NoReport
    /\ IdleEmbeds

\* No adapter object is under test.
NoAdapter == [package |-> "none", db |-> NoDb, path |-> "none"]

NoCall == [name |-> "none", embedding |-> <<>>, k |-> 0, fault |-> "none", before |-> 0, batch |-> <<>>, dim |-> 0]

NoRet == [kind |-> "none", ok |-> FALSE, results |-> <<>>]

\* No index.faiss and no documents.pkl.
NoFiles == [has_index |-> FALSE, index |-> <<>>, has_docs |-> FALSE, docs |-> <<>>]

\* A FAISSVectorStore whose index is None and whose documents are [].
NoIndex == [index_none |-> TRUE, index |-> <<>>, documents |-> <<>>]

NotSearched == [asked |-> FALSE, index |-> <<>>, documents |-> <<>>, done |-> {}]

IdleFiles ==
    /\ disk = NoFiles
    /\ faiss_store = NoIndex
    /\ uploads = <<>>
    /\ searched = NotSearched

IdleSplit ==
    /\ spc = "idle"
    /\ split_text = <<>>
    /\ start = 0
    /\ split_chunks = <<>>

IdleRetry ==
    /\ mpc = "idle"
    /\ attempt = 0
    /\ mongo_doc = 0
    /\ collection = [none |-> FALSE, ids |-> <<>>]
    /\ insert_calls = <<>>
    /\ mret = "none"

IdleAside ==
    /\ IdleFiles
    /\ IdleSplit
    /\ IdleRetry

IdleUnit ==
    /\ adapter = NoAdapter
    /\ documents = <<>>
    /\ vectors = <<>>
    /\ call = NoCall
    /\ ret = NoRet
    /\ schema = 0
    /\ log = <<>>
    /\ IdleAside

IdleServing ==
    /\ op = NoOp
    /\ resp = NoResp
    /\ sim_calls = <<>>
    /\ synth_calls = <<>>
    /\ IdleLocals

\* app.py after its module body ran: every adapter constructed or failed, and
\* available_dbs computed from the module variables.
InitApp ==
    /\ server = "app"
    /\ \E ok \in [DBS -> BOOLEAN] : store = [db \in DBS |-> AppStore(db, ok[db])]
    /\ available_dbs = InitialAvailable(store)
    /\ IdleServing
    /\ IdleIngest
    /\ IdleUnit

\* ------------------------------------------------- app.py: atomic handlers

\* get_available_dbs()
AvailableList(avail) ==
    LET listed == {db \in DBS : avail[db]}
    IN  IF listed = {} THEN DBS ELSE listed

get_available_dbs ==
    /\ server = "app" /\ pc = "idle"
    /\ pc' = "returned"
    /\ op' = [NoOp EXCEPT !.name = "get_available_dbs"]
    /\ resp' = Success("", NoDb, AvailableList(available_dbs))
    /\ sim_calls' = <<>>
    /\ synth_calls' = <<>>
    /\ UNCHANGED <<registry, unit, rq, ingest>>

\* upload_document(file_data, filename): saved is whether decoding and saving
\* the file went through, n and outs what process_document meets.
UploadResult(saved, report) ==
    IF ~saved THEN Error(500, "Upload failed due to an internal server error")
    ELSE IF report.success THEN Success("", NoDb, {})
    ELSE Error(500, "Document processing failed")

\* Flags replaced by the report's whatever the report says.
UploadAvailable_always(avail, saved, report) == report.available_dbs

\* app.py's global available_dbs after upload_document.
UploadAvailable(avail, saved, report) ==
    IF saved /\ report.success THEN report.available_dbs ELSE avail

\* One outcome of indexing into a backend for each value a of its availability
\* entry (every write went through; the block was skipped): upload_document sees
\* nothing else of the outcome. Both are in IndexOutcomes(db, n) for every db.
OutcomeWith(a) ==
    IF a THEN [gate |-> "run", raiseAt |-> 0, fails |-> {}]
    ELSE [gate |-> "skip", raiseAt |-> 0, fails |-> {}]

upload_document ==
    /\ server = "app" /\ pc = "idle"
    /\ pc' = "returned"
    /\ \/ \* decoding or saving the file raised: process_document is not reached
          /\ available_dbs' = UploadAvailable(available_dbs, FALSE, NoReport)
          /\ resp' = UploadResult(FALSE, NoReport)
       \/ \E n \in 0..NChunks, flags \in [DBS -> BOOLEAN] :
          /\ n = 0 => flags = [db \in DBS |-> FALSE]
          /\ LET outs == [db \in DBS |-> OutcomeWith(flags[db])]
                 report == process_document(n, outs)
             IN  /\ available_dbs' = UploadAvailable(available_dbs, TRUE, report)
                 /\ resp' = UploadResult(TRUE, report)
    /\ op' = [NoOp EXCEPT !.name = "upload_document"]
    /\ sim_calls' = <<>>
    /\ synth_calls' = <<>>
    /\ UNCHANGED <<server, store, rq, ingest, unit>>

\* A lookup that only asks for a known identifier.
SingleKnown_name(st, db_type) == db_type \in DBS

\* rag_query(query, db_type, compare_all=False), the single-backend branch:
\* "db = db_map.get(db_type)" gave an adapter.
SingleKnown(st, db_type) == db_type \in DBS /\ st[db_type] # "none"

\* The single-backend branch; o is what the backend's similarity_search does,
\* gen what generate_content does.
SingleResult(st, avail, db_type, o, gen) ==
    IF ~SingleKnown(st, db_type)
    THEN [resp |-> Error(400, "Invalid database type or database not initialized"),
          sim |-> <<>>, synth |-> <<>>]
    ELSE IF ~avail[db_type]
    THEN [resp |-> Error(404, "Database has no indexed documents or is not available"),
          sim |-> <<>>, synth |-> <<>>]
    ELSE IF o.kind = "raise"
    THEN [resp |-> Error(500, "exception"), sim |-> <<db_type>>, synth |-> <<>>]
    ELSE LET g == generate_rag_response(Docs(db_type, o.n), gen)
         IN  [resp |-> Success(g.text, NoDb, {}), sim |-> <<db_type>>, synth |-> g.calls]

DbTypes == DBS \cup {"unknown"}

rag_query_single ==
    /\ server = "app" /\ pc = "idle"
    /\ pc' = "returned"
    /\ \E db_type \in DbTypes, gen \in {"ok", "raise"} :
       \* the elapsed time of the search is not looked at in this branch
       \E o \in (IF db_type \in DBS
                 THEN {x \in SearchOutcomes(db_type, store[db_type]) : x.t = 0}
                 ELSE {[kind |-> "docs", n |-> 0, t |-> 0]}) :
          LET r == SingleResult(store, available_dbs, db_type, o, gen)
          IN  /\ op' = [name |-> "rag_query", db_type |-> db_type, compare_all |-> FALSE]
              /\ resp' = r.resp
              /\ sim_calls' = r.sim
              /\ synth_calls' = r.synth
    /\ UNCHANGED <<registry, unit, rq, ingest>>

\* The dispatcher hands the response out; the handler's frame is gone.
Return ==
    /\ pc = "returned"
    /\ pc' = "idle"
    /\ op' = NoOp
    /\ resp' = NoResp
    /\ sim_calls' = <<>>
    /\ synth_calls' = <<>>
    /\ i' = 0
    /\ all_results' = [db \in DBS |-> NoEntry]
    /\ min_time' = Inf
    /\ best_db' = NoDb
    /\ max_results' = 0
    /\ best_retrieved_docs' = <<>>
    /\ UNCHANGED <<registry, unit, ingest>>

Next ==
    \/ get_available_dbs
    \/ upload_document
    \/ rag_query_single
    \/ Return

Spec == InitApp /\ [][Next]_vars

\* ------------------------------------- app.py: rag_query, compare_all=True

\* Whether the loop body calls similarity_search on db.
Searched(st, avail, db) == st[db] # "none" /\ avail[db]

\* A loop body that stores no entry when the search raises.
AppEntry_unrecorded(st, avail, db, o) ==
    IF st[db] = "none" THEN Failure("Database not available or initialized")
    ELSE IF ~avail[db] THEN Failure("Database not available")
    ELSE IF o.kind = "raise" THEN NoEntry
    ELSE Found(o.t, Docs(db, o.n))

\* The entry the loop body stores in all_results for db; o is what the
\* backend's similarity_search does when it is called.
AppEntry(st, avail, db, o) ==
    IF st[db] = "none" THEN Failure("Database not available or initialized")
    ELSE IF ~avail[db] THEN Failure("Database not available")
    ELSE IF o.kind = "raise" THEN Failure("exception")
    ELSE Found(o.t, Docs(db, o.n))

\* A comparison on the elapsed time alone.
Faster_any(e, m) == e.success /\ e.query_time < m

\* "if db_query_time < min_time and len(retrieved_docs) > 0"
Faster(e, m) == e.success /\ e.query_time < m /\ Len(e.retrieved_docs) > 0

NotCalled == [kind |-> "docs", n |-> 0, t |-> 0]

\* The number of backends that returned documents so far.
Answering(results) ==
    Cardinality({db \in DBS : results[db].success /\ Len(results[db].retrieved_docs) > 0})

compare_start ==
    /\ server = "app" /\ pc = "idle"
    /\ pc' = "loop"
    /\ i' = 1
    /\ op' = [name |-> "rag_query", db_type |-> NoDb, compare_all |-> TRUE]
    /\ UNCHANGED <<registry, unit, resp, sim_calls, synth_calls, all_results, min_time,
                   best_db, max_results, best_retrieved_docs, ingest>>

\* One iteration of "for db_name, db in db_map.items()".
compare_step ==
    /\ server = "app" /\ pc = "loop" /\ i <= Len(DbOrder)
    /\ LET db == DbOrder[i]
           called == Searched(store, available_dbs, db)
           room == Answering(all_results) < MaxAnswering
       IN  \E o \in (IF called THEN SearchOutcomes(db, store[db]) ELSE {NotCalled}) :
             LET e == AppEntry(store, available_dbs, db, o)
             IN  /\ o.n > 0 => room
                 /\ all_results' = [all_results EXCEPT ![db] = e]
                 /\ sim_calls' = IF called THEN Append(sim_calls, db) ELSE sim_calls
                 /\ IF Faster(e, min_time)
                    THEN /\ min_time' = e.query_time
                         /\ best_db' = db
                         /\ max_results' = Len(e.retrieved_docs)
                         /\ best_retrieved_docs' = e.retrieved_docs
                    ELSE UNCHANGED <<min_time, best_db, max_results, best_retrieved_docs>>
    /\ i' = i + 1
    /\ UNCHANGED <<registry, unit, op, resp, synth_calls, pc, ingest>>

\* "If no valid times, fall back to most results": the scan of all_results in
\* insertion order, from position k on, acc the choice so far.
RECURSIVE MostResults(_, _, _)
MostResults(k, results, acc) ==
    IF k > Len(DbOrder) THEN acc
    ELSE LET r == results[DbOrder[k]]
             more == /\ r.present /\ r.success
                     /\ Len(r.retrieved_docs) > 0
                     /\ Len(r.retrieved_docs) > acc.max_results
         IN  MostResults(k + 1, results,
                 IF more THEN [best_db |-> DbOrder[k],
                               max_results |-> Len(r.retrieved_docs),
                               docs |-> r.retrieved_docs]
                 ELSE acc)

\* The choice rag_query answers from, after the loop.
AppChoice(results, best, most, docs) ==
    IF best = NoDb
    THEN MostResults(1, results, [best_db |-> best, max_results |-> most, docs |-> docs])
    ELSE [best_db |-> best, max_results |-> most, docs |-> docs]

\* An answer that always goes through generate_rag_response.
AppAnswer_unguarded(choice, gen) == generate_rag_response(choice.docs, gen)

\* "generate_rag_response(query, best_retrieved_docs) if max_results > 0 else ..."
AppAnswer(choice, gen) ==
    IF choice.max_results > 0 THEN generate_rag_response(choice.docs, gen)
    ELSE [text |-> NoResults, calls |-> <<>>]

\* The code after the loop, up to "return Success({...})".
compare_finish ==
    /\ server = "app" /\ pc = "loop" /\ i = Len(DbOrder) + 1
    /\ \E gen \in {"ok", "raise"} :
         LET choice == AppChoice(all_results, best_db, max_results, best_retrieved_docs)
             answer == AppAnswer(choice, gen)
         IN  /\ best_db' = choice.best_db
             /\ max_results' = choice.max_results
             /\ best_retrieved_docs' = choice.docs
             /\ synth_calls' = answer.calls
             /\ resp' = Success(answer.text, choice.best_db, {})
    /\ pc' = "returned"
    /\ UNCHANGED <<registry, unit, op, sim_calls, i, all_results, min_time, ingest>>

\* --------------------------------- rpc_server.py: rag_query, compare_all=True

NoResultsRpc == "No results found in any database."

\* rpc_server.py's module body: the FAISS and Chroma wrappers are constructed
\* unguarded, the Weaviate wrapper is missing when its import fails, the other
\* wrappers swallow a failed setup and stay with initialized = False.
RpcStore(db, ok, importable) ==
    IF db \in LocalDbs THEN "ready"
    ELSE IF db = "weaviate" /\ ~importable THEN "none"
    ELSE IF ok THEN "ready" ELSE "dummy"

\* The list "available_dbs" that rag_query builds from weaviate_available,
\* milvus_available and the wrappers' initialized flags.
RpcListed(st) ==
    [db \in DBS |-> IF db \in LocalDbs THEN TRUE
                    ELSE IF db = "weaviate" THEN st[db] # "none"
                    ELSE st[db] = "ready"]

InitRpc ==
    /\ server = "rpc"
    /\ \E ok \in [DBS \ LocalDbs -> BOOLEAN], importable \in BOOLEAN :
         store = [db \in DBS |-> RpcStore(db, db \in LocalDbs \/ ok[db], importable)]
    /\ available_dbs = RpcListed(store)
    /\ IdleServing
    /\ IdleIngest
    /\ IdleUnit

\* What <store>.query(query) can do: a wrapper that is not initialized returns
\* (0.0, []) at once.
QueryOutcomes(db, s) ==
    IF s = "dummy" THEN {[kind |-> "docs", n |-> 0, t |-> 0]}
    ELSE SearchOutcomes(db, "ready")

RpcEntry(db, o) ==
    IF o.kind = "raise" THEN Failure("exception") ELSE Found(o.t, Docs(db, o.n))

\* "\n\n".join(docs): the contents of the documents, in the order of the list.
RpcContext(docs) == [j \in 1..Len(docs) |-> docs[j]]

rpc_compare_start ==
    /\ server = "rpc" /\ pc = "idle"
    /\ op' = [name |-> "rag_query", db_type |-> NoDb, compare_all |-> TRUE]
    /\ \E query \in {"", "q"} :
         IF query = ""
         THEN /\ pc' = "returned"
              /\ i' = 0
              /\ resp' = Error(-32602, "No query provided")
         ELSE /\ pc' = "loop"
              /\ i' = 1
              /\ resp' = resp
    /\ UNCHANGED <<registry, unit, sim_calls, synth_calls, all_results, min_time,
                   best_db, max_results, best_retrieved_docs, ingest>>

\* One iteration of "for db in available_dbs"; a backend that is not in the
\* list gets no entry.
rpc_compare_step ==
    /\ server = "rpc" /\ pc = "loop" /\ i <= Len(DbOrder)
    /\ LET db == DbOrder[i]
           room == Answering(all_results) < MaxAnswering
       IN  IF RpcListed(store)[db]
           THEN \E o \in QueryOutcomes(db, store[db]) :
                  LET e == RpcEntry(db, o)
                  IN  /\ o.n > 0 => room
                      /\ all_results' = [all_results EXCEPT ![db] = e]
                      /\ sim_calls' = Append(sim_calls, db)
           ELSE UNCHANGED <<all_results, sim_calls>>
    /\ i' = i + 1
    /\ UNCHANGED <<registry, unit, op, resp, synth_calls, pc, min_time, best_db,
                   max_results, best_retrieved_docs, ingest>>

\* "Determine the fastest database": the scan of all_results from position j
\* on, acc the values of best_db, max_results and min_time so far.
RECURSIVE Fastest(_, _, _)
Fastest(j, results, acc) ==
    IF j > Len(DbOrder) THEN acc
    ELSE LET r == results[DbOrder[j]]
             better == /\ r.present /\ r.success
                       /\ r.query_time < acc.min_time
                       /\ Len(r.retrieved_docs) > 0
         IN  Fastest(j + 1, results,
                 IF better THEN [best_db |-> DbOrder[j],
                                 max_results |-> Len(r.retrieved_docs),
                                 min_time |-> r.query_time]
                 ELSE acc)

\* "fall back to most results": len(retrieved_docs) > max_results, from -1.
RECURSIVE RpcMostResults(_, _, _)
RpcMostResults(j, results, acc) ==
    IF j > Len(DbOrder) THEN acc
    ELSE LET r == results[DbOrder[j]]
             more == /\ r.present /\ r.success
                     /\ Len(r.retrieved_docs) > acc.max_results
         IN  RpcMostResults(j + 1, results,
                 IF more THEN [acc EXCEPT !.best_db = DbOrder[j],
                                          !.max_results = Len(r.retrieved_docs)]
                 ELSE acc)

RpcChoice(results) ==
    LET fastest == Fastest(1, results,
                       [best_db |-> NoDb, max_results |-> -1, min_time |-> Inf])
    IN  IF fastest.best_db = NoDb THEN RpcMostResults(1, results, fastest)
        ELSE fastest

\* The answer and the calls of model.generate_content; a call that raises
\* leaves rag_query through its outer handler.
RpcAnswer(results, choice, gen) ==
    IF choice.best_db # NoDb /\ choice.max_results > 0
    THEN [resp  |-> IF gen = "ok" THEN Success(ModelText, choice.best_db, {})
                    ELSE Error(-32603, "exception"),
          calls |-> <<RpcContext(results[choice.best_db].retrieved_docs)>>]
    ELSE [resp  |-> Success(NoResultsRpc, choice.best_db, {}), calls |-> <<>>]

rpc_compare_finish ==
    /\ server = "rpc" /\ pc = "loop" /\ i = Len(DbOrder) + 1
    /\ \E gen \in {"ok", "raise"} :
         LET choice == RpcChoice(all_results)
             answer == RpcAnswer(all_results, choice, gen)
         IN  /\ best_db' = choice.best_db
             /\ max_results' = choice.max_results
             /\ min_time' = choice.min_time
             /\ synth_calls' = answer.calls
             /\ resp' = answer.resp
    /\ pc' = "returned"
    /\ UNCHANGED <<registry, unit, op, sim_calls, i, all_results, best_retrieved_docs, ingest>>

NextCompare ==
    \/ compare_start
    \/ compare_step
    \/ compare_finish
    \/ rpc_compare_start
    \/ rpc_compare_step
    \/ rpc_compare_finish
    \/ Return

\* Flags a successful upload_document leaves: the report of an ingestion that
\* indexed into one backend only, or into the two local backends only.
UploadedFlags ==
    {[db \in DBS |-> db = only] : only \in DBS} \cup {[db \in DBS |-> db \in LocalDbs]}

\* The registries a compare-all query meets. app.py: the flags startup left or
\* flags an upload left. A compare-all query cannot tell an adapter without a
\* client from a connected one that finds nothing: app.py's networked adapters
\* are taken connected.
InitCompare ==
    \/ /\ server = "app"
       /\ \E ok \in [LocalDbs -> BOOLEAN] :
            store = [db \in DBS |-> AppStore(db, db \notin LocalDbs \/ ok[db])]
       /\ available_dbs \in {InitialAvailable(store)} \cup UploadedFlags
       /\ IdleServing
       /\ IdleIngest
       /\ IdleUnit
    \/ InitRpc

SpecCompare == InitCompare /\ [][NextCompare]_vars

\* ---------------------------- document_processor.py: process_document, by block

\* The contents of n chunks: chunk j has content contents[j], and equal
\* numbers are equal texts. Contents are numbered in order of first appearance.
ChunkContents(n) ==
    {c \in [1..n -> 1..n] :
        \A j \in 1..n : c[j] = 1 \/ \E h \in 1..(j - 1) : c[h] = c[j] - 1}

\* What get_embedding_fn returns for text t on its m-th call: nothing is
\* assumed about two calls returning the same value.
Provided(t, m) == <<t, m>>

\* get_embedding_cached without its dictionary: every request goes to
\* get_embedding_fn.
get_embedding_uncached(cache, calls, t) ==
    LET calls1 == Append(calls, t)
    IN  [cache |-> cache, calls |-> calls1, value |-> Provided(t, Len(calls1))]

\* get_embedding_cached(text_to_embed): the dictionary, the calls made to
\* get_embedding_fn so far, and the value returned.
get_embedding_cached(cache, calls, t) ==
    IF cache[t] = <<>>
    THEN LET calls1 == Append(calls, t)
             cache1 == [cache EXCEPT ![t] = Provided(t, Len(calls1))]
         IN  [cache |-> cache1, calls |-> calls1, value |-> cache1[t]]
    ELSE [cache |-> cache, calls |-> calls, value |-> cache[t]]

\* `for doc in processed_chunks: embedding = get_embedding_cached(doc["content"])`
\* for the chunks j..last of one backend's block; handed are the embeddings
\* passed to add_document.
RECURSIVE EmbedLoop(_, _, _, _)
EmbedLoop(cs, j, last, st) ==
    IF j > last THEN st
    ELSE LET g == get_embedding_cached(st.cache, st.calls, cs[j])
         IN  EmbedLoop(cs, j + 1, last,
                       [cache |-> g.cache, calls |-> g.calls,
                        handed |-> Append(st.handed, g.value)])

pd_start ==
    /\ server = "app" /\ ipc = "idle"
    /\ \E n \in 0..NChunks :
         /\ chunks' = n
         /\ contents' \in ChunkContents(n)
         /\ IF n = 0
            THEN ipc' = "done" /\ bi' = 0
            ELSE ipc' = "blocks" /\ bi' = 1
    /\ result' = NoReport
    /\ UNCHANGED <<registry, unit, serving, blocks, embedding_cache, embed_calls, received>>

\* The block of backend DbOrder[bi]: its gate, its constructor, its loop over
\* the chunks, inside the block's try/except.
pd_block ==
    /\ server = "app" /\ ipc = "blocks" /\ bi <= Len(DbOrder)
    /\ LET db == DbOrder[bi]
       IN  \E o \in IndexOutcomes(db, chunks) :
             /\ Canonical(o, chunks)
             /\ LET b == IndexBackend(db, o, chunks)
                    e == EmbedLoop(contents, 1, b.attempts,
                                   [cache |-> embedding_cache, calls |-> embed_calls,
                                    handed |-> <<>>])
                IN  /\ blocks' = [blocks EXCEPT ![db] = b]
                    /\ embedding_cache' = e.cache
                    /\ embed_calls' = e.calls
                    /\ received' = [received EXCEPT ![db] = e.handed]
    /\ bi' = bi + 1
    /\ UNCHANGED <<registry, unit, serving, ipc, chunks, result, contents>>

\* "if not any(available_dbs.values())" and the two returns after it.
pd_finish ==
    /\ server = "app" /\ ipc = "blocks" /\ bi = Len(DbOrder) + 1
    /\ result' = Report(blocks)
    /\ ipc' = "done"
    /\ UNCHANGED <<registry, unit, serving, chunks, bi, blocks, embeds>>

\* The caller took the report.
ingest_return ==
    /\ ipc = "done"
    /\ ipc' = "idle"
    /\ chunks' = 0
    /\ bi' = 0
    /\ blocks' = [db \in DBS |-> NoBlock]
    /\ result' = NoReport
    /\ contents' = <<>>
    /\ embedding_cache' = NoCache
    /\ embed_calls' = <<>>
    /\ received' = [db \in DBS |-> <<>>]
    /\ UNCHANGED <<registry, unit, serving>>

\* ------------------------------------- rpc_server.py: upload_document, by block

\* What <store>.add_documents(document_chunks) can do on the wrapper of db in
\* state s: FAISS.from_documents and Chroma.from_documents raise or index the
\* batch; the other wrappers return 0.0 at once when not initialized, and
\* otherwise swallow every error (fails: the chunks that were not stored).
RpcIndexOutcomes(db, s, n) ==
    IF db \in LocalDbs
    THEN {[gate |-> "run", raiseAt |-> r, fails |-> {}] : r \in {0, 1}}
    ELSE IF s = "none" THEN {[gate |-> "skip", raiseAt |-> 0, fails |-> {}]}
    ELSE IF s = "dummy" THEN {[gate |-> "uninit", raiseAt |-> 0, fails |-> {}]}
    ELSE {[gate |-> "run", raiseAt |-> 0, fails |-> f] :
            f \in (IF db = "milvus" THEN {{}, 1..n} ELSE SUBSET (1..n))}

\* Whether upload_document calls add_documents on db: the Weaviate and Milvus
\* blocks are behind weaviate_available and milvus_available.
RpcGate(db, st) ==
    IF db = "weaviate" THEN st[db] # "none"
    ELSE IF db = "milvus" THEN st[db] = "ready"
    ELSE TRUE

\* The initial entry of indexing_times.
RpcInitialTime(db) == IF db \in LocalDbs THEN 0 ELSE -1

\* One backend's block of upload_document.
RpcIndexBackend(db, st, o, n) ==
    IF ~RpcGate(db, st)
    THEN [visited |-> TRUE, raised |-> FALSE, time |-> RpcInitialTime(db),
          available |-> FALSE, written |-> 0, attempts |-> 0]
    ELSE IF o.raiseAt > 0
    THEN [visited |-> TRUE, raised |-> TRUE, time |-> RpcInitialTime(db),
          available |-> FALSE, written |-> 0, attempts |-> 1]
    ELSE IF o.gate = "uninit"
    THEN [visited |-> TRUE, raised |-> FALSE, time |-> Elapsed(0),
          available |-> TRUE, written |-> 0, attempts |-> 1]
    ELSE [visited |-> TRUE, raised |-> FALSE, time |-> Elapsed(n),
          available |-> TRUE, written |-> n - Cardinality(o.fails), attempts |-> 1]

\* The "document" part of the Success that upload_document returns.
RpcReport(b, st) ==
    [success |-> TRUE,
     indexing_times |-> [db \in DBS |-> b[db].time],
     available_dbs |->
        [db \in DBS |-> IF db \in LocalDbs THEN TRUE
                        ELSE IF db = "weaviate" THEN st[db] # "none"
                        ELSE IF db = "milvus" THEN st[db] = "ready" /\ b[db].time >= 0
                        ELSE b[db].time >= 0]]

\* The blocks of upload_document that are in no try/except of their own.
Unguarded == {"faiss", "chroma", "weaviate"}

\* The checks and the text extraction before the indexing; valid is whether
\* they all pass, n the number of chunks.
rpc_upload_start ==
    /\ server = "rpc" /\ ipc = "idle"
    /\ \E n \in 0..NChunks, valid \in BOOLEAN :
         /\ n = 0 => ~valid
         /\ chunks' = n
         /\ IF valid
            THEN ipc' = "blocks" /\ bi' = 1
            ELSE ipc' = "done" /\ bi' = 0
    /\ result' = NoReport
    /\ UNCHANGED <<registry, unit, serving, blocks, embeds>>

\* The block of backend DbOrder[bi]. The FAISS, Chroma and Weaviate blocks have
\* no handler of their own: an error leaves upload_document through its outer
\* handler, which returns Error(-32603).
rpc_upload_block ==
    /\ server = "rpc" /\ ipc = "blocks" /\ bi <= Len(DbOrder)
    /\ LET db == DbOrder[bi]
       IN  \E o \in RpcIndexOutcomes(db, store[db], chunks) :
             LET b == RpcIndexBackend(db, store, o, chunks)
             IN  /\ blocks' = [blocks EXCEPT ![db] = b]
                 /\ IF b.raised /\ db \in Unguarded
                    THEN ipc' = "done" /\ bi' = bi
                    ELSE ipc' = "blocks" /\ bi' = bi + 1
    /\ UNCHANGED <<registry, unit, serving, chunks, result, embeds>>

rpc_upload_finish ==
    /\ server = "rpc" /\ ipc = "blocks" /\ bi = Len(DbOrder) + 1
    /\ result' = RpcReport(blocks, store)
    /\ ipc' = "done"
    /\ UNCHANGED <<registry, unit, serving, chunks, bi, blocks, embeds>>

NextIngest ==
    \/ pd_start
    \/ pd_block
    \/ pd_finish
    \/ rpc_upload_start
    \/ rpc_upload_block
    \/ rpc_upload_finish
    \/ ingest_return

\* process_document builds its own adapters: the registry of app.py plays no
\* part in it.
InitIngest ==
    \/ /\ server = "app"
       /\ store = [db \in DBS |-> AppStore(db, TRUE)]
       /\ available_dbs = InitialAvailable(store)
       /\ IdleServing
       /\ IdleIngest
       /\ IdleUnit
    \/ InitRpc

SpecIngest == InitIngest /\ [][NextIngest]_vars

\* ------------------------------------------------- one adapter, record by record

\* The embedding length the fixed-schema backends expect (expected_dim and the
\* schema's dim, 768 in the source), scaled down.
ExpectedDim == 2

\* The coordinates of the embeddings.
Coordinates == {0, 1}

\* The number of rows PGVectorStore's Python distance path fetches (limit(100)
\* in the source), scaled down.
FetchLimit == 2

\* The largest k a search is called with.
MaxK == 2

\* The number of add_document calls made on one adapter.
MaxRecords == 2

Min(a, b) == IF a < b THEN a ELSE b

Vec(L, v) == [j \in 1..L |-> v]

\* The embeddings handed to the adapters: of the expected length, one shorter
\* and one longer.
Embeddings == {Vec(L, v) : L \in (ExpectedDim - 1)..(ExpectedDim + 1), v \in Coordinates}

\* sum((a - b) ** 2 for a, b in zip(x, y)): zip stops at the shorter vector.
\* The code's square root is left out: it does not change an order.
RECURSIVE SqDist(_, _)
SqDist(x, y) ==
    IF x = <<>> \/ y = <<>> THEN 0
    ELSE (Head(x) - Head(y)) * (Head(x) - Head(y)) + SqDist(Tail(x), Tail(y))

\* A score larger than every distance: what FAISS reports for a missing hit.
FarScore == (ExpectedDim + 1) + 1

RECURSIVE InsertByScore(_, _)
InsertByScore(sorted, row) ==
    IF sorted = <<>> THEN <<row>>
    ELSE LET n == Len(sorted)
         IN  IF sorted[n].score <= row.score THEN Append(sorted, row)
             ELSE Append(InsertByScore(SubSeq(sorted, 1, n - 1), row), sorted[n])

\* list.sort(key=distance): ascending and stable.
RECURSIVE SortByScore(_)
SortByScore(rows) ==
    IF rows = <<>> THEN <<>>
    ELSE LET n == Len(rows)
         IN  InsertByScore(SortByScore(SubSeq(rows, 1, n - 1)), rows[n])

Take(rows, k) == SubSeq(rows, 1, Min(k, Len(rows)))

\* The rows of a collection with their distance to q, nearest first: what an
\* exact nearest-neighbour search of the backend's engine computes.
Rank(vecs, q) ==
    SortByScore([j \in 1..Len(vecs) |-> [idx |-> j, score |-> SqDist(q, vecs[j])]])

\* The documents of the ranked rows.
Hits(docs, rows) == [j \in 1..Len(rows) |-> [doc |-> docs[rows[j].idx], score |-> rows[j].score]]

Raised == [kind |-> "raise", ok |-> FALSE, results |-> <<>>]

Returned(results) == [kind |-> "list", ok |-> TRUE, results |-> results]

Wrote(ok) == [kind |-> "bool", ok |-> ok, results |-> <<>>]

\* FAISSVectorStore.similarity_search: IndexFlatL2.search asserts the query's
\* length, answers with index -1 where the index has fewer vectors than asked
\* for, and documents[-1] is the last document.
FaissSearch(docs, vecs, q, k) ==
    IF vecs = <<>> \/ docs = <<>> THEN Returned(<<>>)
    ELSE IF Len(q) # Len(vecs[1]) THEN Raised
    ELSE LET kk   == Min(k, Len(docs))
             hits == Take(Rank(vecs, q), kk)
             row(j) == IF j <= Len(hits)
                          THEN [doc |-> docs[hits[j].idx], score |-> hits[j].score]
                          ELSE [doc |-> docs[Len(docs)], score |-> FarScore]
         IN  Returned([j \in 1..kk |-> row(j)])

\* The same search without the count() == 0 early return: collection.query
\* rejects n_results = 0.
ChromaSearch_uncounted(docs, vecs, q, k) ==
    IF Len(docs) = 0 THEN Raised
    ELSE IF Len(q) # Len(vecs[1]) THEN Raised
    ELSE Returned(Hits(docs, Take(Rank(vecs, q), Min(k, Len(docs)))))

\* ChromaVectorStore.similarity_search: collection.query rejects a query of
\* another length than the collection's.
ChromaSearch(docs, vecs, q, k) ==
    IF Len(docs) = 0 THEN Returned(<<>>)
    ELSE IF Len(q) # Len(vecs[1]) THEN Raised
    ELSE Returned(Hits(docs, Take(Rank(vecs, q), Min(k, Len(docs)))))

\* The searches of Weaviate and Milvus, wrapped in `except Exception: return
\* []`: the engine rejects a query of another length than the stored vectors,
\* which all have one length.
GuardedSearch(docs, vecs, q, k) ==
    IF vecs = <<>> THEN Returned(<<>>)
    ELSE IF Len(q) # Len(vecs[1]) THEN Returned(<<>>)
    ELSE Returned(Hits(docs, Take(Rank(vecs, q), k)))

\* MongoDBVectorStore.similarity_search on Atlas: $vectorSearch over the
\* index "embedding_index", which holds the vectors of the indexed length;
\* a query of another length fails, and the failure is caught.
MongoAtlasSearch(docs, vecs, q, k) ==
    IF Len(q) # ExpectedDim THEN Returned(<<>>)
    ELSE LET rows == SelectSeq([j \in 1..Len(vecs) |-> [idx |-> j, score |-> SqDist(q, vecs[j])]],
                               LAMBDA r : Len(vecs[r.idx]) = ExpectedDim)
         IN  Returned(Hits(docs, Take(SortByScore(rows), k)))

\* PGVectorStore.similarity_search with the extension: `embedding <->
\* :embedding` fails on a row of another length than the query's, and the
\* failure is caught.
PgVectorSearch(docs, vecs, q, k) ==
    IF \E j \in 1..Len(vecs) : Len(vecs[j]) # Len(q) THEN Returned(<<>>)
    ELSE Returned(Hits(docs, Take(Rank(vecs, q), k)))

\* MongoDBVectorStore.similarity_search when Atlas is not detected:
\* find().limit(k) with a dummy score.
MongoStandardSearch(docs, k) ==
    Returned([j \in 1..Min(k, Len(docs)) |-> [doc |-> docs[j], score |-> 0]])

\* PGVectorStore.similarity_search without the extension: the first
\* FetchLimit rows, distances computed in Python, sorted, cut at k.
PgPythonSearch(docs, vecs, q, k) ==
    LET n       == Min(FetchLimit, Len(docs))
        fetched == SubSeq(vecs, 1, n)
        withEmb == SelectSeq([j \in 1..n |-> [idx |-> j, score |-> SqDist(q, fetched[j])]],
                             LAMBDA r : vecs[r.idx] # <<>>)
    IN  Returned(Hits(docs, Take(SortByScore(withEmb), k)))

\* The search paths an adapter class has.
Paths(db) ==
    IF db = "pgvector" THEN {"pgvector", "python"}
    ELSE IF db = "mongo" THEN {"atlas", "standard"}
    ELSE {"native"}

similarity_search_of(a, docs, vecs, q, k) ==
    IF a.db = "faiss" THEN FaissSearch(docs, vecs, q, k)
    ELSE IF a.db = "chroma" THEN ChromaSearch(docs, vecs, q, k)
    ELSE IF a.db = "mongo" /\ a.path = "standard" THEN MongoStandardSearch(docs, k)
    ELSE IF a.db = "mongo" THEN MongoAtlasSearch(docs, vecs, q, k)
    ELSE IF a.db = "pgvector" /\ a.path = "python" THEN PgPythonSearch(docs, vecs, q, k)
    ELSE IF a.db = "pgvector" THEN PgVectorSearch(docs, vecs, q, k)
    ELSE GuardedSearch(docs, vecs, q, k)

\* What a write leaves behind and returns.
Outcome(docs, vecs, r) == [documents |-> docs, vectors |-> vecs, ret |-> r]

\* FAISSVectorStore.add_document: the document is appended before index.add,
\* which asserts the embedding's length; save_index can fail on the disk;
\* nothing is caught.
FaissAdd(docs, vecs, doc, e, fault) ==
    LET dimension == IF vecs = <<>> THEN Len(e) ELSE Len(vecs[1])
    IN  IF Len(e) # dimension THEN Outcome(Append(docs, doc), vecs, Raised)
        ELSE IF fault = "driver" THEN Outcome(Append(docs, doc), Append(vecs, e), Raised)
        ELSE Outcome(Append(docs, doc), Append(vecs, e), Wrote(TRUE))

\* ChromaVectorStore.add_document: collection.add rejects an embedding of
\* another length than the collection's; nothing is caught.
ChromaAdd(docs, vecs, doc, e, fault) ==
    IF fault = "driver" \/ (vecs # <<>> /\ Len(e) # Len(vecs[1]))
        THEN Outcome(docs, vecs, Raised)
        ELSE Outcome(Append(docs, doc), Append(vecs, e), Wrote(TRUE))

\* WeaviateVectorStore.add_document: every exception is caught.
WeaviateAdd(docs, vecs, doc, e, fault) ==
    IF fault = "driver" \/ (vecs # <<>> /\ Len(e) # Len(vecs[1]))
        THEN Outcome(docs, vecs, Wrote(FALSE))
        ELSE Outcome(Append(docs, doc), Append(vecs, e), Wrote(TRUE))

\* MongoDBVectorStore.add_document: only PyMongoError is caught ("driver");
\* any other exception of insert_one ("other") leaves the method.
MongoAdd(docs, vecs, doc, e, fault) ==
    IF fault = "driver" THEN Outcome(docs, vecs, Wrote(FALSE))
    ELSE IF fault = "other" THEN Outcome(docs, vecs, Raised)
    ELSE Outcome(Append(docs, doc), Append(vecs, e), Wrote(TRUE))

\* PGVectorStore.add_document: when self.Session() itself raises ("session"),
\* the handler reads the unbound local `session` and raises in turn; a failed
\* commit ("driver") is rolled back.
PgAdd(docs, vecs, doc, e, fault) ==
    IF fault = "session" THEN Outcome(docs, vecs, Raised)
    ELSE IF fault = "driver" THEN Outcome(docs, vecs, Wrote(FALSE))
    ELSE Outcome(Append(docs, doc), Append(vecs, e), Wrote(TRUE))

\* The embedding cut or padded with zeros to the expected length.
Resize(e) ==
    IF Len(e) > ExpectedDim THEN SubSeq(e, 1, ExpectedDim)
    ELSE e \o Vec(ExpectedDim - Len(e), 0)

\* MilvusVectorStore.add_document: the embedding is resized, then inserted.
MilvusAdd(docs, vecs, doc, e, fault) ==
    IF fault = "driver" THEN Outcome(docs, vecs, Wrote(FALSE))
    ELSE Outcome(Append(docs, doc), Append(vecs, Resize(e)), Wrote(TRUE))

\* The ways a write can fail in the driver of each backend.
Faults(db) ==
    IF db = "mongo" THEN {"none", "driver", "other"}
    ELSE IF db = "pgvector" THEN {"none", "driver", "session"}
    ELSE {"none", "driver"}

add_document_of(a, docs, vecs, doc, e, fault) ==
    IF a.db = "faiss" THEN FaissAdd(docs, vecs, doc, e, fault)
    ELSE IF a.db = "chroma" THEN ChromaAdd(docs, vecs, doc, e, fault)
    ELSE IF a.db = "weaviate" THEN WeaviateAdd(docs, vecs, doc, e, fault)
    ELSE IF a.db = "mongo" THEN MongoAdd(docs, vecs, doc, e, fault)
    ELSE IF a.db = "pgvector" THEN PgAdd(docs, vecs, doc, e, fault)
    ELSE MilvusAdd(docs, vecs, doc, e, fault)

\* add_documents returns the elapsed time.
Timed == [kind |-> "time", ok |-> TRUE, results |-> <<>>]

\* rag.FAISSVectorStore.add_documents: FAISS.from_documents builds a new
\* store from the batch and replaces self.vectorstore; nothing is caught.
RagFaissAdd(docs, vecs, batch, fault) ==
    IF fault = "driver" THEN Outcome(docs, vecs, Raised)
    ELSE Outcome(batch, batch, Timed)

\* rag.WeaviateStore.add_documents: one object per chunk under the id
\* generate_uuid5(page_content), so a chunk whose content is already stored
\* replaces that object.
RECURSIVE Upsert(_, _)
Upsert(docs, batch) ==
    IF batch = <<>> THEN docs
    ELSE LET held == \E j \in 1..Len(docs) : docs[j] = Head(batch)
         IN  Upsert(IF held THEN docs ELSE Append(docs, Head(batch)), Tail(batch))

RagWeaviateAdd(docs, vecs, batch, fault) ==
    IF fault = "driver" THEN Outcome(docs, vecs, [Timed EXCEPT !.ok = FALSE])
    ELSE LET after == Upsert(docs, batch)
         IN  Outcome(after, after, Timed)

\* rag.MongoVectorStore.add_documents: each embedding is cut or padded to
\* embedding_dim, then the batch is inserted.
RagMongoAdd(docs, vecs, batch, fault) ==
    IF fault = "driver" THEN Outcome(docs, vecs, [Timed EXCEPT !.ok = FALSE])
    ELSE Outcome(docs \o batch, vecs \o [j \in 1..Len(batch) |-> Resize(batch[j])], Timed)

RagDbs == {"faiss", "weaviate", "mongo"}

add_documents_of(a, docs, vecs, batch, fault) ==
    IF a.db = "faiss" THEN RagFaissAdd(docs, vecs, batch, fault)
    ELSE IF a.db = "weaviate" THEN RagWeaviateAdd(docs, vecs, batch, fault)
    ELSE RagMongoAdd(docs, vecs, batch, fault)

\* The number of documents one adapter is given, one by one.
Cap(a) == IF a.db = "pgvector" /\ a.path = "python" THEN FetchLimit + 1 ELSE MaxRecords

\* A document is represented by the embedding of its content, which is what
\* the callers pass along with it (get_embedding(doc["content"])).
unit_add_document ==
    /\ adapter.package = "vectorstores"
    /\ Len(documents) < Cap(adapter)
    /\ \E e \in Embeddings, fault \in Faults(adapter.db) :
         LET o == add_document_of(adapter, documents, vectors, e, e, fault)
         IN  /\ documents' = o.documents
             /\ vectors' = o.vectors
             /\ ret' = o.ret
             /\ call' = [name |-> "add_document", embedding |-> e, k |-> 0, fault |-> fault,
                         before |-> Len(documents), batch |-> <<>>, dim |-> 0]
    /\ UNCHANGED <<registry, serving, ingest, adapter, schema, log, aside>>

unit_similarity_search ==
    /\ adapter.package = "vectorstores"
    /\ \E q \in Embeddings, k \in 1..MaxK :
         /\ ret' = similarity_search_of(adapter, documents, vectors, q, k)
         /\ call' = [name |-> "similarity_search", embedding |-> q, k |-> k, fault |-> "none",
                     before |-> Len(documents), batch |-> <<>>, dim |-> 0]
    /\ UNCHANGED <<registry, serving, ingest, adapter, documents, vectors, schema, log, aside>>

unit_add_documents ==
    /\ adapter.package = "rag" /\ adapter.db \in RagDbs
    /\ \E n \in 1..NChunks :
         /\ Len(documents) + n <= MaxRecords
         /\ \E batch \in [1..n -> Embeddings], fault \in {"none", "driver"} :
              LET o == add_documents_of(adapter, documents, vectors, batch, fault)
              IN  /\ documents' = o.documents
                  /\ vectors' = o.vectors
                  /\ ret' = o.ret
                  /\ call' = [name |-> "add_documents", embedding |-> <<>>, k |-> 0,
                              fault |-> fault, before |-> Len(documents), batch |-> batch, dim |-> 0]
    /\ UNCHANGED <<registry, serving, ingest, adapter, schema, log, aside>>

\* What a constructor leaves behind: the backend's schema and rows, whether
\* the wrapper is initialized, and what it printed.
Built(dim, docs, vecs, ok, lines) ==
    [schema |-> dim, documents |-> docs, vectors |-> vecs, initialized |-> ok, log |-> lines]

\* rag.MilvusVectorStore.__init__ on a backend whose collection has embedding
\* length dim (0: no collection), with a model whose embeddings have length
\* model_dim: a collection of another length is dropped by
\* utility.drop_collection and the constructor runs again, now creating it.
\* Nothing is printed about the drop.
RagMilvusInit(dim, docs, vecs, model_dim, fault) ==
    IF fault = "connect" THEN Built(dim, docs, vecs, FALSE, <<"error">>)
    ELSE IF dim = 0 THEN Built(model_dim, <<>>, <<>>, TRUE, <<"connected">>)
    ELSE IF dim # model_dim
    THEN IF fault = "drop" THEN Built(dim, docs, vecs, FALSE, <<"error">>)
         ELSE Built(model_dim, <<>>, <<>>, TRUE, <<"connected">>)
    ELSE Built(dim, docs, vecs, TRUE, <<"connected">>)

\* rag.PGVectorStore.__init__: current_dimension is read from the first row
\* (None on an empty table); recreate_table is set when the table is missing
\* or current_dimension differs from the model's; the drop is announced, and
\* a failed drop is only printed, after which CREATE TABLE IF NOT EXISTS
\* keeps the old table.
RagPgInit(dim, docs, vecs, model_dim, fault) ==
    IF fault = "connect" THEN Built(dim, docs, vecs, FALSE, <<"connecting", "error">>)
    ELSE
    LET table_exists      == dim > 0
        current_dimension == IF docs # <<>> THEN dim ELSE 0
        mismatch          == table_exists /\ current_dimension # model_dim
        warned            == <<"connecting">>
                             \o (IF ~table_exists THEN <<"will create">> ELSE <<>>)
                             \o (IF mismatch THEN <<"dimension mismatch">> ELSE <<>>)
                             \o (IF mismatch /\ Len(docs) > 0 THEN <<"will delete">> ELSE <<>>)
    IN  IF ~table_exists \/ mismatch
        THEN IF fault = "drop"
             THEN Built(dim, docs, vecs, TRUE,
                        warned \o <<"dropping", "error dropping", "creating", "created", "connected">>)
             ELSE IF fault = "create"
             THEN Built(0, <<>>, <<>>, FALSE,
                        warned \o <<"dropping", "dropped", "creating", "error">>)
             ELSE Built(model_dim, <<>>, <<>>, TRUE,
                        warned \o <<"dropping", "dropped", "creating", "created", "connected">>)
        ELSE Built(dim, docs, vecs, TRUE, warned \o <<"using existing", "connected">>)

\* The rag wrappers that compare the backend's schema with the model.
SchemaDbs == {"milvus", "pgvector"}

InitFaults(db) ==
    IF db = "pgvector" THEN {"none", "connect", "drop", "create"}
    ELSE {"none", "connect", "drop"}

init_of(a, dim, docs, vecs, model_dim, fault) ==
    IF a.db = "milvus" THEN RagMilvusInit(dim, docs, vecs, model_dim, fault)
    ELSE RagPgInit(dim, docs, vecs, model_dim, fault)

\* The outcome of a constructor.
Constructed(ok) == [kind |-> "init", ok |-> ok, results |-> <<>>]

\* rpc_server.py constructs the wrapper over the backend as it is; the model's
\* embedding length is that of embed_query("test").
unit_init ==
    /\ adapter.package = "rag" /\ adapter.db \in SchemaDbs
    /\ call.name = "none"
    /\ \E e \in Embeddings, fault \in InitFaults(adapter.db) :
         LET o == init_of(adapter, schema, documents, vectors, Len(e), fault)
         IN  /\ schema' = o.schema
             /\ documents' = o.documents
             /\ vectors' = o.vectors
             /\ log' = o.log
             /\ ret' = Constructed(o.initialized)
             /\ call' = [name |-> "__init__", embedding |-> e, k |-> 0, fault |-> fault,
                         before |-> Len(documents), batch |-> <<>>, dim |-> schema]
    /\ UNCHANGED <<registry, serving, ingest, adapter, aside>>

NextStore ==
    \/ unit_add_document
    \/ unit_similarity_search
    \/ unit_add_documents
    \/ unit_init

\* One adapter object right after its construction succeeded, its backend
\* empty: a vectorstores adapter of app.py or a rag wrapper of rpc_server.py;
\* or a rag wrapper about to be constructed over a backend that has a schema
\* and rows from an earlier run.
InitStore ==
    /\ \/ /\ server = "app"
          /\ store = [db \in DBS |-> AppStore(db, TRUE)]
          /\ available_dbs = InitialAvailable(store)
          /\ \E db \in DBS : \E p \in Paths(db) :
               adapter = [package |-> "vectorstores", db |-> db, path |-> p]
          /\ documents = <<>> /\ schema = 0
       \/ /\ server = "rpc"
          /\ store = [db \in DBS |-> RpcStore(db, TRUE, TRUE)]
          /\ available_dbs = RpcListed(store)
          /\ \E db \in RagDbs : adapter = [package |-> "rag", db |-> db, path |-> "native"]
          /\ documents = <<>> /\ schema = 0
       \/ /\ server = "rpc"
          /\ store = [db \in DBS |-> RpcStore(db, TRUE, TRUE)]
          /\ available_dbs = RpcListed(store)
          /\ \E db \in SchemaDbs : adapter = [package |-> "rag", db |-> db, path |-> "native"]
          /\ schema \in 0..(ExpectedDim + 1)
          /\ \E n \in 0..MaxRecords :
               /\ schema = 0 => n = 0
               /\ documents \in [1..n -> {Vec(schema, c) : c \in Coordinates}]
    /\ IdleServing
    /\ IdleIngest
    /\ vectors = documents
    /\ call = NoCall
    /\ ret = NoRet
    /\ log = <<>>
    /\ IdleAside

SpecStore == InitStore /\ [][NextStore]_vars

\* --------------------------------------------- a search that does not return
\* The compare-all loop calls db.similarity_search(query, query_embedding)
\* inline, on the thread that serves the request, with no timeout and no worker:
\* a call that never returns leaves the loop at that backend. The call is
\* entered (sim_calls) and control never reaches the line after it.
compare_hang ==
    /\ server = "app" /\ pc = "loop" /\ i <= Len(DbOrder)
    /\ Searched(store, available_dbs, DbOrder[i])
    /\ sim_calls' = Append(sim_calls, DbOrder[i])
    /\ pc' = "hung"
    /\ UNCHANGED <<registry, unit, op, resp, synth_calls, i, all_results, min_time,
                   best_db, max_results, best_retrieved_docs, ingest>>

NextCompareHang ==
    \/ NextCompare
    \/ compare_hang

\* The request thread runs whenever it can: the only way for a query to stay
\* unanswered is a call that does not return.
SpecCompareLive == InitCompare /\ [][NextCompareHang]_vars /\ WF_vars(NextCompareHang)

\* ------------------------------------- the FAISS files and their instances
\* vectorstores/faiss_store.py keeps its index in ./storage/faiss. app.py
\* constructs one FAISSVectorStore when the module is loaded and serves every
\* rag_query from it; process_document constructs another one on each call,
\* adds the chunks to it and saves after each addition. app.run serves each
\* request on its own thread, so the steps of two uploads and of a query
\* interleave at the file operations.

MaxUploads == 2

Uploads == 1..MaxUploads

\* Chunk j of the document upload u sent; upload 0 is an earlier run.
Chunk(u, j) == <<u, j>>

\* What an earlier run of the program left in ./storage/faiss.
PriorFiles ==
    [has_index |-> TRUE, index |-> <<Chunk(0, 1)>>,
     has_docs |-> TRUE, docs |-> <<Chunk(0, 1)>>]

\* FAISSVectorStore.__init__ run with no other writer: load_index if
\* index.faiss exists, an instance without index otherwise.
Loaded(d) ==
    IF d.has_index
    THEN [index_none |-> FALSE, index |-> d.index,
          documents |-> IF d.has_docs THEN d.docs ELSE <<>>]
    ELSE NoIndex

\* What the uploads and the queries on faiss leave alone.
apart == <<registry, serving, ingest, adapter, documents, vectors, call, ret, schema, log,
           split, retry>>

NotStarted == [pc |-> "idle", n |-> 0, j |-> 0, faiss_store |-> NoIndex]

\* process_document's "faiss_store = FAISSVectorStore()": the existence test
\* and, if index.faiss is there, faiss.read_index. n is len(processed_chunks).
up_construct(u) ==
    /\ uploads[u].pc = "idle"
    /\ \E n \in 1..NChunks :
         uploads' = [uploads EXCEPT ![u] =
            IF disk.has_index
            THEN [pc |-> "load_docs", n |-> n, j |-> 1,
                  faiss_store |-> [index_none |-> FALSE, index |-> disk.index,
                                   documents |-> <<>>]]
            ELSE [pc |-> "add", n |-> n, j |-> 1, faiss_store |-> NoIndex]]
    /\ UNCHANGED <<disk, faiss_store, searched, apart>>

\* load_index, second half: pickle.load of documents.pkl, [] without the file.
up_load_docs(u) ==
    /\ uploads[u].pc = "load_docs"
    /\ uploads' = [uploads EXCEPT
            ![u].faiss_store.documents = IF disk.has_docs THEN disk.docs ELSE <<>>,
            ![u].pc = "add"]
    /\ UNCHANGED <<disk, faiss_store, searched, apart>>

\* add_document up to save_index: the index is made if None, the document and
\* the vector are appended in memory.
up_add(u) ==
    /\ uploads[u].pc = "add"
    /\ LET fs == uploads[u].faiss_store
           c == Chunk(u, uploads[u].j)
       IN  uploads' = [uploads EXCEPT
                ![u].faiss_store = [index_none |-> FALSE, index |-> Append(fs.index, c),
                                    documents |-> Append(fs.documents, c)],
                ![u].pc = "write_index"]
    /\ UNCHANGED <<disk, faiss_store, searched, apart>>

\* save_index, first half: faiss.write_index replaces index.faiss.
up_write_index(u) ==
    /\ uploads[u].pc = "write_index"
    /\ disk' = [disk EXCEPT !.has_index = TRUE, !.index = uploads[u].faiss_store.index]
    /\ uploads' = [uploads EXCEPT ![u].pc = "write_docs"]
    /\ UNCHANGED <<faiss_store, searched, apart>>

\* save_index, second half: pickle.dump replaces documents.pkl; add_document
\* returns True and the loop goes to the next chunk, or the block ends and
\* the upload reports faiss as indexed.
up_write_docs(u) ==
    /\ uploads[u].pc = "write_docs"
    /\ disk' = [disk EXCEPT !.has_docs = TRUE, !.docs = uploads[u].faiss_store.documents]
    /\ uploads' = [uploads EXCEPT
            ![u].j = @ + 1,
            ![u].pc = IF uploads[u].j = uploads[u].n THEN "done" ELSE "add"]
    /\ UNCHANGED <<faiss_store, searched, apart>>

\* The uploads that returned Success with faiss flagged.
Uploaded == {u \in Uploads : uploads[u].pc = "done"}

\* rag_query(query, "faiss"): db_map["faiss"] is the module-level instance,
\* and similarity_search reads its index and its documents.
faiss_query ==
    /\ searched' = [asked |-> TRUE, index |-> faiss_store.index,
                    documents |-> faiss_store.documents, done |-> Uploaded]
    /\ searched' # searched
    /\ UNCHANGED <<disk, faiss_store, uploads, apart>>

NextFaiss ==
    \/ \E u \in Uploads : up_construct(u)
    \/ \E u \in Uploads : up_load_docs(u)
    \/ \E u \in Uploads : up_add(u)
    \/ \E u \in Uploads : up_write_index(u)
    \/ \E u \in Uploads : up_write_docs(u)
    \/ faiss_query

\* app.py after its module body ran, over an empty ./storage/faiss or over the
\* files of an earlier run; no request yet.
InitFaiss ==
    /\ server = "app"
    /\ store = [db \in DBS |-> AppStore(db, TRUE)]
    /\ available_dbs = InitialAvailable(store)
    /\ IdleServing
    /\ IdleIngest
    /\ adapter = NoAdapter /\ documents = <<>> /\ vectors = <<>>
    /\ call = NoCall /\ ret = NoRet /\ schema = 0 /\ log = <<>>
    /\ IdleSplit
    /\ IdleRetry
    /\ disk \in {NoFiles, PriorFiles}
    /\ faiss_store = Loaded(disk)
    /\ uploads = [u \in Uploads |-> NotStarted]
    /\ searched = NotSearched

SpecFaiss == InitFaiss /\ [][NextFaiss]_vars

\* ------------------------------------------------- split_text_into_chunks
\* A text is a sequence of characters; TextChars has one character that is no
\* break point and the three the function breaks on. chunk_size and overlap
\* are the defaults 1000 and 200, scaled.

ChunkSize == 4

Overlap == 2

MaxText == 6

MaxPieces == 3

TextChars == {"x", ".", " ", "\n"}

Texts == UNION {[1..n -> TextChars] : n \in 0..MaxText}

\* The patterns of "for char in ['. ', '\n', ' ']", in that order.
BreakChars == << <<".", " ">>, <<"\n">>, <<" ">> >>

\* Python's reading of a slice bound on a sequence of length n: a negative
\* bound counts from the end and stops at 0.
SliceBound(b, n) == IF b >= 0 THEN Min(b, n) ELSE IF b + n < 0 THEN 0 ELSE b + n

\* t.rfind(sub, s, e): the highest index in t[s:e] where sub occurs, or -1.
rfind(t, sub, s, e) ==
    LET a == SliceBound(s, Len(t))
        b == SliceBound(e, Len(t))
        found == {p \in a..(b - Len(sub)) : \A k \in 1..Len(sub) : t[p + k] = sub[k]}
    IN  IF found = {} THEN -1 ELSE CHOOSE p \in found : \A q \in found : q <= p

\* t[s:e]
Slice(t, s, e) == SubSeq(t, SliceBound(s, Len(t)) + 1, SliceBound(e, Len(t)))

\* str.strip(): without the leading and trailing whitespace.
RECURSIVE strip(_)
strip(t) ==
    IF t = <<>> THEN t
    ELSE IF t[1] \in {" ", "\n"} THEN strip(Tail(t))
    ELSE IF t[Len(t)] \in {" ", "\n"} THEN strip(SubSeq(t, 1, Len(t) - 1))
    ELSE t

\* The break-point search: end after the first pattern of BreakChars, from
\* position c on, that occurs in text[start:end]; end itself if none does.
RECURSIVE BreakPoint(_, _, _, _)
BreakPoint(t, s, e, c) ==
    IF c > Len(BreakChars) THEN e
    ELSE LET pos == rfind(t, BreakChars[c], s, e)
         IN  IF pos # -1 THEN pos + 1 ELSE BreakPoint(t, s, e, c + 1)

\* The end of the chunk that starts at s.
EndOf(t, s) ==
    LET end == Min(s + ChunkSize, Len(t))
    IN  IF end < Len(t) THEN BreakPoint(t, s, end, 1) ELSE end

\* What the steps of the splitter leave alone.
beside == <<registry, serving, ingest, adapter, documents, vectors, call, ret, schema, log,
            files, retry>>

\* "if not text: return []", else the loop is entered with start = 0.
split_enter ==
    /\ spc = "called"
    /\ spc' = IF split_text = <<>> THEN "done" ELSE "loop"
    /\ UNCHANGED <<split_text, start, split_chunks, beside>>

\* One iteration of "while start < text_length".
split_step ==
    /\ spc = "loop" /\ start < Len(split_text)
    /\ Len(split_chunks) < MaxPieces
    /\ LET end == EndOf(split_text, start)
           chunk_text == strip(Slice(split_text, start, end))
       IN  /\ split_chunks' = IF chunk_text # <<>> THEN Append(split_chunks, chunk_text)
                              ELSE split_chunks
           /\ start' = IF end < Len(split_text) THEN end - Overlap ELSE Len(split_text)
    /\ UNCHANGED <<spc, split_text, beside>>

\* The loop condition fails: "return chunks".
split_return ==
    /\ spc = "loop" /\ start >= Len(split_text)
    /\ spc' = "done"
    /\ UNCHANGED <<split_text, start, split_chunks, beside>>

NextSplit ==
    \/ split_enter
    \/ split_step
    \/ split_return

\* split_text_into_chunks called with a text.
InitSplit ==
    /\ server = "app"
    /\ store = [db \in DBS |-> AppStore(db, TRUE)]
    /\ available_dbs = InitialAvailable(store)
    /\ IdleServing
    /\ IdleIngest
    /\ adapter = NoAdapter /\ documents = <<>> /\ vectors = <<>>
    /\ call = NoCall /\ ret = NoRet /\ schema = 0 /\ log = <<>>
    /\ IdleFiles
    /\ IdleRetry
    /\ spc = "called"
    /\ split_text \in Texts
    /\ start = 0
    /\ split_chunks = <<>>

SpecSplit == InitSplit /\ [][NextSplit]_vars

\* ------------------------------------ MongoDBVectorStore.add_document, stepwise
\* One step per insert_one call. mongo_doc["_id"] is made once, before the
\* loop; the collection's unique index on _id rejects a second document with
\* the same _id.

max_retries == 3

\* The exceptions of insert_one that are a PyMongoError: a failure before the
\* write, a failure after the server applied it, a DuplicateKeyError.
DriverFailures == {"failed", "lost", "duplicate"}

\* How an insert_one call with a fresh _id on every try could end.
InsertOutcomes_fresh_id(ids, d) == {"ok", "failed", "lost", "other"}

\* How collection.insert_one(mongo_doc) can end, for the documents ids in the
\* collection and the _id d: "other" is an exception that is no PyMongoError.
InsertOutcomes(ids, d) ==
    IF \E j \in 1..Len(ids) : ids[j] = d
    THEN {"duplicate", "failed", "other"}
    ELSE {"ok", "failed", "lost", "other"}

\* What the steps of add_document leave alone.
besides == <<registry, serving, ingest, adapter, documents, vectors, call, ret, schema, log,
             files, split>>

\* add_document is called: False at once without a collection, else mongo_doc
\* is prepared with a new _id and the loop starts at attempt 0.
mongo_call ==
    /\ mpc = "idle" /\ mongo_doc < MaxRecords
    /\ mongo_doc' = mongo_doc + 1
    /\ insert_calls' = <<>>
    /\ attempt' = 0
    /\ IF collection.none
       THEN mret' = "False" /\ mpc' = "idle"
       ELSE mret' = "none" /\ mpc' = "insert"
    /\ UNCHANGED <<collection, besides>>

\* One iteration of "for attempt in range(max_retries)".
mongo_insert ==
    /\ mpc = "insert"
    /\ \E o \in InsertOutcomes(collection.ids, mongo_doc) :
         /\ insert_calls' = Append(insert_calls, o)
         /\ collection' = IF o \in {"ok", "lost"}
                          THEN [collection EXCEPT !.ids = Append(@, mongo_doc)]
                          ELSE collection
         /\ IF o = "ok" THEN /\ mret' = "True" /\ mpc' = "idle" /\ UNCHANGED attempt
            ELSE IF o = "other" THEN /\ mret' = "raise" /\ mpc' = "idle" /\ UNCHANGED attempt
            ELSE IF attempt < max_retries - 1
                 THEN /\ attempt' = attempt + 1 /\ UNCHANGED <<mret, mpc>>
                 ELSE /\ mpc' = "except" /\ UNCHANGED <<mret, attempt>>
    /\ UNCHANGED <<mongo_doc, besides>>

\* The outer "except PyMongoError": ping, and on a lost connection a new
\* __init__, which leaves self.collection None when it fails; return False.
mongo_except ==
    /\ mpc = "except"
    /\ \E lost \in BOOLEAN : collection' = [collection EXCEPT !.none = lost]
    /\ mret' = "False"
    /\ mpc' = "idle"
    /\ UNCHANGED <<attempt, mongo_doc, insert_calls, besides>>

NextMongo ==
    \/ mongo_call
    \/ mongo_insert
    \/ mongo_except

\* A MongoDBVectorStore that connected, over an empty collection.
InitMongo ==
    /\ server = "app"
    /\ store = [db \in DBS |-> AppStore(db, TRUE)]
    /\ available_dbs = InitialAvailable(store)
    /\ IdleServing
    /\ IdleIngest
    /\ adapter = NoAdapter /\ documents = <<>> /\ vectors = <<>>
    /\ call = NoCall /\ ret = NoRet /\ schema = 0 /\ log = <<>>
    /\ IdleFiles
    /\ IdleSplit
    /\ IdleRetry

SpecMongo == InitMongo /\ [][NextMongo]_vars

\* --------------------------------- rpc_server.py: rag_query, one backend
\* The branch "else:" of rag_query. An unknown db_type is refused; a wrapper
\* variable that is None (weaviate, when its import failed) raises on .query;
\* every exception ends in the outer handler. The prompt is built from the
\* results and generate_content is called whatever the results are.
RpcSingleResult(st, db_type, o, gen) ==
    IF db_type \notin DBS
    THEN [resp |-> Error(-32602, "Invalid database type"), sim |-> <<>>, synth |-> <<>>]
    ELSE IF st[db_type] = "none"
    THEN [resp |-> Error(-32603, "exception"), sim |-> <<>>, synth |-> <<>>]
    ELSE IF o.kind = "raise"
    THEN [resp |-> Error(-32603, "exception"), sim |-> <<db_type>>, synth |-> <<>>]
    ELSE [resp  |-> IF gen = "ok" THEN Success(ModelText, NoDb, {})
                    ELSE Error(-32603, "exception"),
          sim   |-> <<db_type>>,
          synth |-> <<RpcContext(Docs(db_type, o.n))>>]

rpc_query_single ==
    /\ server = "rpc" /\ pc = "idle"
    /\ pc' = "returned"
    /\ \E db_type \in DbTypes, gen \in {"ok", "raise"} :
       \E o \in (IF db_type \in DBS /\ store[db_type] # "none"
                 THEN {x \in QueryOutcomes(db_type, store[db_type]) : x.t = 0}
                 ELSE {[kind |-> "docs", n |-> 0, t |-> 0]}) :
          LET r == RpcSingleResult(store, db_type, o, gen)
          IN  /\ op' = [name |-> "rag_query", db_type |-> db_type, compare_all |-> FALSE]
              /\ resp' = r.resp
              /\ sim_calls' = r.sim
              /\ synth_calls' = r.synth
    /\ UNCHANGED <<registry, unit, rq, ingest>>

NextSingle ==
    \/ rag_query_single
    \/ rpc_query_single
    \/ Return

\* Either program, started, answering single-backend queries.
InitSingle ==
    \/ InitApp
    \/ InitRpc

SpecSingle == InitSingle /\ [][NextSingle]_vars

\* ================================================================ properties

\* A compare-all rag_query ran its loop to the end and returned.
CompareDone ==
    /\ pc = "returned"
    /\ op.name = "rag_query" /\ op.compare_all
    /\ i = Len(DbOrder) + 1

\* Backend db returned a non-empty result set to the query.
NonEmpty(db) ==
    all_results[db].success /\ Len(all_results[db].retrieved_docs) > 0

\* Position of db in DbOrder.
Pos(db) == CHOOSE j \in 1..Len(DbOrder) : DbOrder[j] = db

\* C1: in app.py's compare-all rag_query every available backend is searched,
\* in order, whichever of them raise; a backend whose search raised has a
\* failure entry with the error; the call returns Success.
C1_RaisingBackendsRecorded ==
    (CompareDone /\ server = "app") =>
        /\ resp.kind = "Success"
        /\ \A db \in DBS :
             Searched(store, available_dbs, db) =>
                /\ \E j \in 1..Len(sim_calls) : sim_calls[j] = db
                /\ all_results[db].present
                /\ all_results[db].success \/ all_results[db].error = "exception"
        /\ \A j \in 1..Len(sim_calls) : Searched(store, available_dbs, sim_calls[j])
        /\ \A j1, j2 \in 1..Len(sim_calls) :
             j1 < j2 => Pos(sim_calls[j1]) < Pos(sim_calls[j2])

\* Both local backends raised, a later backend answered, the call succeeded.
C1_Witness ==
    /\ CompareDone /\ server = "app"
    /\ all_results["faiss"].error = "exception"
    /\ all_results["chroma"].error = "exception"
    /\ \E db \in DBS : NonEmpty(db)
    /\ Len(sim_calls) = Len(DbOrder)
    /\ resp.kind = "Success"

NoResultsAnswer == IF server = "app" THEN NoResults ELSE NoResultsRpc

\* C3: when a compare-all query returns and no backend returned any result,
\* the response is the literal no-results answer and generate_content was not
\* called.
C3_NoResultsNoSynthesis ==
    (CompareDone /\ \A db \in DBS : ~NonEmpty(db)) =>
        /\ resp.kind = "Success"
        /\ resp.response = NoResultsAnswer
        /\ synth_calls = <<>>

\* Backends were searched, one found nothing and one raised; nothing was found.
C3_Witness ==
    /\ CompareDone
    /\ \A db \in DBS : ~NonEmpty(db)
    /\ \E db \in DBS : all_results[db].success
    /\ \E db \in DBS : all_results[db].error = "exception"
    /\ resp.response = NoResultsAnswer
    /\ synth_calls = <<>>

\* Backend db's block of an ingestion indexed the document: it ran to its end
\* and not every chunk write failed.
Indexed(db) == blocks[db].available /\ blocks[db].written > 0

\* process_document went through the backends and returned.
ProcessDone == server = "app" /\ ipc = "done" /\ chunks > 0

\* C4: process_document reports success = False exactly when indexing failed
\* for every backend; a backend for which every chunk write failed does not
\* count as indexed.
C4_FailureIffNoBackendIndexed ==
    ProcessDone => (result.success <=> \E db \in DBS : Indexed(db))

\* An ingestion went through its backends and returned.
IngestDone == ipc = "done" /\ chunks > 0

\* C5: in process_document and in rpc_server.upload_document, after an error
\* raised while indexing into a backend every later backend is still attempted.
C5_LaterBackendsAttempted ==
    IngestDone =>
        \A j1, j2 \in 1..Len(DbOrder) :
            (j1 < j2 /\ blocks[DbOrder[j1]].raised) => blocks[DbOrder[j2]].visited

\* get_available_dbs returned.
ListDone == pc = "returned" /\ op.name = "get_available_dbs"

\* C6: get_available_dbs returns only backends whose adapter initialization
\* succeeded.
C6_OnlyInitializedListed ==
    ListDone => \A db \in resp.list : store[db] = "ready"

SingleDone == pc = "returned" /\ op.name = "rag_query" /\ ~op.compare_all

\* The db_type of the query is not a known identifier, or names a backend whose
\* adapter is missing or whose flag is not set.
Unusable(db_type) ==
    \/ db_type \notin DBS
    \/ store[db_type] = "none"
    \/ ~available_dbs[db_type]

\* C8: in app.py's single-backend rag_query an unknown or unavailable db_type
\* gives a client error (400 or 404), with no similarity_search and no
\* generate_content call.
C8_UnknownOrUnavailableIsClientError ==
    (SingleDone /\ Unusable(op.db_type)) =>
        /\ resp.kind = "Error"
        /\ resp.code \in {400, 404}
        /\ sim_calls = <<>>
        /\ synth_calls = <<>>

\* The query named a constructed backend whose flag an upload had cleared.
C8_Witness ==
    /\ SingleDone
    /\ op.db_type \in DBS
    /\ store[op.db_type] # "none"
    /\ ~available_dbs[op.db_type]
    /\ resp.code = 404
    /\ sim_calls = <<>>

\* C9: when every backend fails during app.py's compare-all query (each is
\* unavailable or raises), rag_query returns an error, not a success.
C9_TotalFailureIsAnError ==
    (CompareDone /\ server = "app" /\ \A db \in DBS : ~all_results[db].success) =>
        resp.kind = "Error"

\* The context the program hands to generate_content.
ContextOf(docs) == IF server = "app" THEN Context(docs) ELSE RpcContext(docs)

\* C10: when a compare-all query returns and some backend returned results,
\* generate_content was called exactly once, with the context built from the
\* results of the reported backend only, in their order.
C10_OneSynthesisFromBest ==
    (CompareDone /\ \E db \in DBS : NonEmpty(db)) =>
        /\ Len(synth_calls) = 1
        /\ best_db \in DBS
        /\ synth_calls[1] = ContextOf(all_results[best_db].retrieved_docs)

\* Two backends answered with two documents each; one call was made.
C10_Witness ==
    /\ CompareDone /\ server = "app"
    /\ \E d1, d2 \in DBS :
         /\ d1 # d2
         /\ Len(all_results[d1].retrieved_docs) = 2
         /\ Len(all_results[d2].retrieved_docs) = 2
    /\ Len(synth_calls) = 1
    /\ Len(synth_calls[1]) = 2
    /\ resp.best_db = best_db

\* Backends tied on the lowest elapsed time among those with results.
TiedFastest ==
    {db \in DBS :
        /\ NonEmpty(db)
        /\ \A o \in DBS :
             NonEmpty(o) => all_results[db].query_time <= all_results[o].query_time}

\* C11: when a compare-all query returns and several backends tie on the
\* lowest elapsed time among those with results, the reported backend is the
\* tied one with the most results, and among tied backends with equally many
\* results the first in registry order.
C11_TieGoesToMostResults ==
    (CompareDone /\ resp.kind = "Success" /\ Cardinality(TiedFastest) > 1) =>
        /\ resp.best_db \in TiedFastest
        /\ \A db \in TiedFastest :
             LET mine  == Len(all_results[resp.best_db].retrieved_docs)
                 other == Len(all_results[db].retrieved_docs)
             IN  \/ other < mine
                 \/ other = mine /\ Pos(resp.best_db) <= Pos(db)

\* The adapter under test just returned from (or raised in) a similarity_search.
Searched1 == call.name = "similarity_search"

\* C12: a similarity_search on an adapter whose backend holds no record
\* returns the empty list and does not raise, whatever the query embedding
\* (of the expected length or not) and whatever k >= 1.
C12_EmptyBackendReturnsEmpty ==
    (Searched1 /\ documents = <<>> /\ vectors = <<>>) => ret = Returned(<<>>)

\* An empty Chroma collection is searched with the largest k and an embedding
\* longer than expected.
C12_Witness ==
    /\ Searched1
    /\ adapter.db = "chroma"
    /\ documents = <<>>
    /\ call.k = MaxK
    /\ Len(call.embedding) = ExpectedDim + 1
    /\ ret = Returned(<<>>)

\* The adapter under test is one of vectorstores/ and its last call was a
\* similarity_search that used a distance: every path but MongoDB's standard
\* one.
MetricSearch ==
    /\ Searched1
    /\ adapter.package = "vectorstores"
    /\ ~(adapter.db = "mongo" /\ adapter.path = "standard")

\* The chunk whose embedding is the query's was written as given: its
\* document and its embedding are in the backend at the same position.
StoredAsGiven(e) ==
    \E j \in 1..Len(vectors) : documents[j] = e /\ vectors[j] = e

\* Every document given to the adapter and every vector it holds has length n.
OneLength(n) ==
    /\ \A j \in 1..Len(documents) : Len(documents[j]) = n
    /\ \A j \in 1..Len(vectors) : Len(vectors[j]) = n

\* C13: when a chunk was added with an embedding and the adapter is searched
\* with that same embedding, the search returns results and the chunk is the
\* top result or is tied with the top result by score; stated for backends
\* whose embeddings all have the expected length, whatever the number of
\* records.
C13_RoundTrip ==
    (MetricSearch /\ StoredAsGiven(call.embedding) /\ OneLength(ExpectedDim)) =>
        /\ ret.kind = "list"
        /\ ret.results # <<>>
        /\ \/ \E r \in 1..Len(ret.results) :
                /\ ret.results[r].doc = call.embedding
                /\ ret.results[r].score = ret.results[1].score
           \/ ret.results[1].score = SqDist(call.embedding, call.embedding)

\* C14: a similarity_search with limit k returns at most k results, nearest
\* first: no returned record is farther from the query than a record
\* returned after it. Stated for backends whose embeddings all have the
\* expected length and for every search path, MongoDB's standard one included.
C14_AtMostKNearestFirst ==
    (Searched1 /\ adapter.package = "vectorstores" /\ ret.kind = "list"
        /\ Len(call.embedding) = ExpectedDim /\ OneLength(ExpectedDim)) =>
        /\ Len(ret.results) <= call.k
        /\ \A a, b \in 1..Len(ret.results) :
             a < b => SqDist(call.embedding, ret.results[a].doc)
                        <= SqDist(call.embedding, ret.results[b].doc)

\* The adapter under test just returned from (or raised in) an add_document.
Added1 == call.name = "add_document"

\* The backend holds what it held before the call: the write did not happen.
WriteFailed == Len(vectors) = call.before

\* C15: add_document reports a failed write by returning False and never by
\* raising, whatever made the write fail (a driver error, an embedding of the
\* wrong length, a session that cannot be created).
C15_FailedWriteReturnsFalse ==
    (Added1 /\ (call.fault # "none" \/ WriteFailed)) => ret = Wrote(FALSE)

\* C16: within one backend's block of process_document, a chunk whose write
\* fails is skipped and the chunks after it are still attempted: a backend
\* that was handed its first chunk is handed every chunk of the batch,
\* wherever in the batch the failing chunk is.
C16_RemainingChunksAttempted ==
    ProcessDone =>
        \A db \in DBS : blocks[db].attempts > 0 => blocks[db].attempts = chunks

\* The adapter under test just returned from (or raised in) a write of a
\* batch: add_documents, or add_document as a batch of one.
Ingested1 == call.name \in {"add_document", "add_documents"}

BatchSize == IF call.name = "add_documents" THEN Len(call.batch) ELSE 1

\* C17: after a batch was ingested into a backend, the backend holds at most
\* batch-size records more than before, and exactly batch-size more when no
\* write failed; also when the backend already held records.
C17_CountGrowsByBatch ==
    Ingested1 =>
        /\ Len(documents) <= call.before + BatchSize
        /\ (call.fault = "none" /\ ret.kind # "raise" /\ ret.ok)
              => Len(documents) = call.before + BatchSize

\* C18: within one process_document call get_embedding_fn is invoked at most
\* once per distinct chunk content, however many backends are indexed, and
\* every backend is handed the same embedding for the same content.
C18_OneEmbeddingPerContent ==
    server = "app" =>
        /\ \A a, b \in 1..Len(embed_calls) :
             a # b => embed_calls[a] # embed_calls[b]
        /\ \A d1, d2 \in DBS :
             \A j1 \in 1..Len(received[d1]), j2 \in 1..Len(received[d2]) :
                contents[j1] = contents[j2] => received[d1][j1] = received[d2][j2]

\* Two chunks with the same content went to several backends, and the
\* provider was asked once.
C18_Witness ==
    /\ ProcessDone
    /\ chunks = 2 /\ contents[1] = contents[2]
    /\ Cardinality({db \in DBS : Len(received[db]) = 2}) >= 3
    /\ Len(embed_calls) = 1

\* C19: in the report of a process_document call that succeeded, a backend's
\* timing is -1 exactly when its availability flag is False and non-negative
\* exactly when the flag is True; a backend whose block was skipped or whose
\* adapter could not be constructed is reported with -1 and False.
C19_TimingMatchesFlag ==
    (ProcessDone /\ result.success) =>
        \A db \in DBS :
            /\ result.indexing_times[db] = -1 <=> ~result.available_dbs[db]
            /\ result.indexing_times[db] >= 0 <=> result.available_dbs[db]
            /\ blocks[db].attempts = 0 =>
                 result.indexing_times[db] = -1 /\ ~result.available_dbs[db]

\* One backend's adapter could not be constructed, another raised after its
\* first chunk was written, a third indexed the batch.
C19_Witness ==
    /\ ProcessDone /\ result.success
    /\ \E d1, d2, d3 \in DBS :
         /\ blocks[d1].raised /\ blocks[d1].attempts = 0
         /\ blocks[d2].raised /\ blocks[d2].attempts = 2
         /\ result.available_dbs[d3] /\ result.indexing_times[d3] >= 0
         /\ result.indexing_times[d1] = -1 /\ result.indexing_times[d2] = -1

\* C20: no adapter stores an embedding that was cut or padded: after a write
\* that reported success the vectors stored by it are the embeddings that
\* were given, so a write whose embedding has not the backend's length fails.
C20_StoredEmbeddingUnaltered ==
    /\ (Added1 /\ ret = Wrote(TRUE)) =>
          /\ Len(vectors) = call.before + 1
          /\ vectors[Len(vectors)] = call.embedding
    /\ (call.name = "add_documents" /\ adapter.db = "mongo" /\ ret = Timed) =>
          \A j \in 1..Len(call.batch) :
             /\ call.before + j <= Len(vectors)
             /\ vectors[call.before + j] = call.batch[j]

\* The rag wrapper under test was just constructed over a backend whose
\* schema has another embedding length than the model's.
InitOnMismatch ==
    /\ call.name = "__init__"
    /\ call.dim > 0
    /\ call.dim # Len(call.embedding)

\* C21: a constructor that finds a schema of another embedding length either
\* fails to initialize or recreates the schema, and it prints a record of the
\* drop before every recreation: no rows are dropped without that record.
C21_DropIsLogged ==
    InitOnMismatch =>
        /\ ~ret.ok \/ (schema = Len(call.embedding) /\ documents = <<>>)
        /\ (schema # call.dim \/ Len(documents) < call.before) =>
              \E j \in 1..Len(log) : log[j] = "dropping"

\* A rag_query of app.py returned.
QueryDone == server = "app" /\ pc = "returned" /\ op.name = "rag_query"

\* C22: when generate_content fails during a rag_query, the caller gets an
\* error result: no rag_query returns a success result whose answer is the
\* text written in place of the model's answer after a failure.
C22_SynthesisFailureIsAnError ==
    (QueryDone /\ resp.kind = "Success") => resp.response # SynthError

\* C23: in a compare-all rag_query a backend whose similarity_search never
\* returns does not block the others: every compare-all query of app.py that
\* entered its loop, also one with a search that hangs, eventually returns.
C23_HungBackendDoesNotBlock ==
    (server = "app" /\ pc \in {"loop", "hung"}) ~> (pc = "returned")

\* The elements of a sequence.
Range(s) == {s[k] : k \in 1..Len(s)}

\* The chunks upload u sent.
ChunksOf(u) == {Chunk(u, j) : j \in 1..uploads[u].n}

\* C24: read-your-writes. A rag_query on faiss that runs after an
\* upload_document returned success searches an index that contains the
\* chunks of that upload.
C24_QuerySeesUploadedChunks ==
    searched.asked =>
        \A u \in searched.done : ChunksOf(u) \subseteq Range(searched.index)

\* C26: when two upload_document calls have both returned, index.faiss and
\* documents.pkl hold the chunks of both, whatever the interleaving of their
\* loads, additions and saves.
C26_ConcurrentUploadsBothPersisted ==
    Uploaded = Uploads =>
        \A u \in Uploads :
            /\ ChunksOf(u) \subseteq Range(disk.index)
            /\ ChunksOf(u) \subseteq Range(disk.docs)

\* C25: split_text_into_chunks terminates: in every iteration of its loop the
\* start position strictly increases, wherever the break points lie.
C25_StartStrictlyIncreases ==
    [][(spc = "loop" /\ spc' = "loop") => start' > start]_vars

\* C27: in the vectorstores FAISSVectorStore, after any sequence of
\* add_document calls, failed ones included, the documents list is as long as
\* the index has vectors.
C27_DocumentsMatchIndex ==
    (adapter.package = "vectorstores" /\ adapter.db = "faiss") =>
        Len(documents) = Len(vectors)

\* C28: when a compare-all rag_query of either program returns Success, the
\* reported best_db is a backend only if that backend's recorded result set is
\* non-empty, and it is null exactly when the response is the no-results answer.
C28_BestDbHasResults ==
    (CompareDone /\ resp.kind = "Success") =>
        /\ resp.best_db # NoDb => NonEmpty(resp.best_db)
        /\ resp.best_db = NoDb <=> resp.response = NoResultsAnswer

\* How often the document with _id d is in the collection.
Copies(d) == Cardinality({j \in 1..Len(collection.ids) : collection.ids[j] = d})

\* C29: MongoDBVectorStore.add_document calls insert_one at most 3 times for
\* one document; an insert that succeeds is the last one and the method
\* returns True; once three consecutive inserts failed in the driver it
\* returns False; and no document is in the collection more than once.
C29_AtMostThreeInsertsStoredOnce ==
    /\ Len(insert_calls) <= 3
    /\ \A j \in 1..Len(insert_calls) :
         insert_calls[j] = "ok" => (j = Len(insert_calls) /\ mret = "True" /\ mpc = "idle")
    /\ mret = "True" => insert_calls[Len(insert_calls)] = "ok"
    /\ (/\ mpc = "idle" /\ Len(insert_calls) = 3
        /\ \A j \in 1..3 : insert_calls[j] \in DriverFailures) => mret = "False"
    /\ \A d \in 1..MaxRecords : Copies(d) <= 1

\* The first insert failed after the server had applied it, the two retries
\* were rejected as duplicates, and add_document returned False.
C29_Witness ==
    /\ mpc = "idle" /\ mret = "False"
    /\ insert_calls = <<"lost", "duplicate", "duplicate">>
    /\ Copies(mongo_doc) = 1

\* C30: the model is never called with an empty retrieved context: a
\* single-backend rag_query of either program hands generate_content no empty
\* context, and when it answers without calling the model the answer is the
\* fixed literal.
C30_NoSynthesisOnEmptyContext ==
    SingleDone =>
        /\ \A j \in 1..Len(synth_calls) : synth_calls[j] # <<>>
        /\ (resp.kind = "Success" /\ synth_calls = <<>>) => resp.response = NoRelevant

====
